---- MODULE Spec2Model ----
(***************************************************************************)
(* Model of PyBaseballDataValidator (src/src/utils/data_validator.py):     *)
(* the three-tier batting-average fallback cascade, its in-memory cache,   *)
(* and the player-record validation with its data-quality score.           *)
(*                                                                         *)
(* Python scalars are records [t, s, n, d]: t is the type tag ("none",     *)
(* "str", "num"), s the string payload, n/d an exact fraction.  A float    *)
(* NaN is the number with d = 0.  Fractions are kept in lowest terms with  *)
(* d > 0, so structural equality is numeric equality.                      *)
(***************************************************************************)
EXTENDS Integers, Sequences, FiniteSets, TLC

VARIABLES cache, cache_duration, now, call

vars == <<cache, cache_duration, now, call>>

(***************************************************************************)
(* Bounds of the model.                                                    *)
(***************************************************************************)
MaxRows == 2
MaxSideRows == 1
MaxSeasonRows == 1
MaxTime == 1
MaxDuration == 2
MaxHitsRows == 3
MaxEventRows == 3

(***************************************************************************)
(* Python values.                                                          *)
(***************************************************************************)
RECURSIVE GCD(_, _)
GCD(a, b) == IF b = 0 THEN a ELSE GCD(b, a % b)

Abs(x) == IF x < 0 THEN -x ELSE x

PyNone == [t |-> "none", s |-> "", n |-> 0, d |-> 1]

PyStr(str) == [t |-> "str", s |-> str, n |-> 0, d |-> 1]

NaN == [t |-> "num", s |-> "", n |-> 0, d |-> 0]

\* the float num/den, den # 0, in lowest terms
Rat(num, den) ==
    LET g == GCD(Abs(num), Abs(den))
        sgn == IF den < 0 THEN -1 ELSE 1
    IN [t |-> "num", s |-> "", n |-> (sgn * num) \div g, d |-> Abs(den) \div g]

IsNone(v) == v.t = "none"

\* pandas isnull(): None and NaN are both null
isnull(v) == v.t = "none" \/ (v.t = "num" /\ v.d = 0)

\* float comparisons; every comparison with NaN (or None in a float column,
\* which pandas stores as NaN) is False
Lt(a, b) == a.t = "num" /\ b.t = "num" /\ a.d # 0 /\ b.d # 0 /\ a.n * b.d < b.n * a.d

Le(a, b) == a.t = "num" /\ b.t = "num" /\ a.d # 0 /\ b.d # 0 /\ a.n * b.d <= b.n * a.d

NumEq(a, b) == a.t = "num" /\ b.t = "num" /\ a.d # 0 /\ b.d # 0 /\ a.n * b.d = b.n * a.d

Zero == Rat(0, 1)

One == Rat(1, 1)

\* Python truthiness: None, "", 0 and 0.0 are falsy; NaN is truthy
Truthy(v) ==
    CASE v.t = "none" -> FALSE
      [] v.t = "str" -> v.s # ""
      [] v.t = "num" -> ~(v.d # 0 /\ v.n = 0)

\* float division a / b with NaN propagation (b is never 0 where it is used)
Div(a, b) ==
    IF isnull(a) \/ isnull(b) \/ b.n = 0 THEN NaN
    ELSE Rat(a.n * b.d, a.d * b.n)

(***************************************************************************)
(* __init__                                                                *)
(***************************************************************************)
league_average == Rat(244, 1000)

EmptyCache == <<>>

(***************************************************************************)
(* _is_cache_valid, with t the value of datetime.now().  The clock counts  *)
(* hours, as cache_duration does.                                          *)
(***************************************************************************)
\* timedelta.total_seconds() of a duration counted in hours
total_seconds(duration) == duration * 3600

\* mutant: the boundary age counts as live
is_cache_valid_inclusive(timestamp, t) == t - timestamp <= cache_duration

\* datetime.now() - timestamp < self.cache_duration
_is_cache_valid(timestamp, t) == t - timestamp < cache_duration

(***************************************************************************)
(* The invalid-value mask used by every tier (lines 73-76, 106, 118, 129). *)
(***************************************************************************)
invalid_mask(v) == isnull(v) \/ NumEq(v, Zero) \/ Lt(v, Zero) \/ Lt(One, v)

\* mutant: the assignment ignores the mask
FillAll(series, value) == [i \in DOMAIN series |-> value]

\* series.loc[invalid_mask] = value
FillMasked(series, value) ==
    [i \in DOMAIN series |-> IF invalid_mask(series[i]) THEN value ELSE series[i]]

AnyMasked(series) == \E i \in DOMAIN series : invalid_mask(series[i])

(***************************************************************************)
(* Tier 1.                                                                 *)
(***************************************************************************)
\* mutant: the entry is used without the staleness check
previous_game_fallback_ignoring_staleness(series, player_id, c, t) ==
    IF Truthy(player_id) /\ player_id.s \in DOMAIN c
    THEN LET cached_data == c[player_id.s]
         IN IF cached_data.field = "previous_avg"
            THEN FillMasked(series, cached_data.val)
            ELSE series
    ELSE series

\* mutant: the tier-1 mask leaves out the zero test
previous_game_fallback_keeping_zero(series, player_id, c, t) ==
    IF Truthy(player_id) /\ player_id.s \in DOMAIN c
    THEN LET cached_data == c[player_id.s]
         IN IF cached_data.field = "previous_avg" /\ _is_cache_valid(cached_data.timestamp, t)
            THEN [i \in DOMAIN series |->
                    IF isnull(series[i]) \/ Lt(series[i], Zero) \/ Lt(One, series[i])
                    THEN cached_data.val ELSE series[i]]
            ELSE series
    ELSE series

_apply_previous_game_fallback(series, player_id, c, t) ==
    IF Truthy(player_id) /\ player_id.s \in DOMAIN c
    THEN LET cached_data == c[player_id.s]
         IN IF cached_data.field = "previous_avg" /\ _is_cache_valid(cached_data.timestamp, t)
            THEN FillMasked(series, cached_data.val)
            ELSE series
    ELSE series

(***************************************************************************)
(* Tier 2.  The provider's answer to one statcast_batter call is a reply:  *)
(* kind "raise" (the call fails), "none" (returns None) or "rows" (a table *)
(* whose events column is reply.events, possibly empty).                   *)
(***************************************************************************)
hit_events == {"single", "double", "triple", "home_run"}

CountHits(events) == Cardinality({i \in DOMAIN events : events[i].t = "str" /\ events[i].s \in hit_events})

_calc_overall_avg_from_events(events) ==
    IF Len(events) = 0 THEN league_average
    ELSE Rat(CountHits(events), Len(events))

SeasonKey(player_id) == "season_avg_" \o player_id.s

\* mutant: when the fetch yields nothing, a stale season entry is served
season_average_serving_stale(player_id, c, t, reply) ==
    LET cache_key == SeasonKey(player_id)
    IN IF cache_key \in DOMAIN c /\ _is_cache_valid(c[cache_key].timestamp, t)
       THEN IF c[cache_key].field = "value"
            THEN [outcome |-> "value", val |-> c[cache_key].val, cache |-> c, fetched |-> FALSE]
            ELSE [outcome |-> "raise", val |-> PyNone, cache |-> c, fetched |-> FALSE]
       ELSE IF reply.kind = "rows" /\ Len(reply.events) > 0
            THEN LET season_avg == _calc_overall_avg_from_events(reply.events)
                     entry == [field |-> "value", val |-> season_avg, timestamp |-> t]
                 IN [outcome |-> "value", val |-> season_avg,
                     cache |-> [k \in DOMAIN c \cup {cache_key} |->
                                   IF k = cache_key THEN entry ELSE c[k]],
                     fetched |-> TRUE]
            ELSE IF cache_key \in DOMAIN c /\ c[cache_key].field = "value"
            THEN [outcome |-> "value", val |-> c[cache_key].val, cache |-> c, fetched |-> TRUE]
            ELSE [outcome |-> "none", val |-> PyNone, cache |-> c, fetched |-> TRUE]

\* mutant: the provider is asked whatever the cache holds
season_average_always_fetching(player_id, c, t, reply) ==
    LET cache_key == SeasonKey(player_id)
    IN IF reply.kind = "rows" /\ Len(reply.events) > 0
       THEN LET season_avg == _calc_overall_avg_from_events(reply.events)
                entry == [field |-> "value", val |-> season_avg, timestamp |-> t]
            IN [outcome |-> "value", val |-> season_avg,
                cache |-> [k \in DOMAIN c \cup {cache_key} |->
                              IF k = cache_key THEN entry ELSE c[k]],
                fetched |-> TRUE]
       ELSE [outcome |-> "none", val |-> PyNone, cache |-> c, fetched |-> TRUE]

\* mutant: a stale entry is dropped when the fetch yields nothing
season_average_evicting_stale(player_id, c, t, reply) ==
    LET cache_key == SeasonKey(player_id)
    IN IF cache_key \in DOMAIN c /\ _is_cache_valid(c[cache_key].timestamp, t)
       THEN IF c[cache_key].field = "value"
            THEN [outcome |-> "value", val |-> c[cache_key].val, cache |-> c, fetched |-> FALSE]
            ELSE [outcome |-> "raise", val |-> PyNone, cache |-> c, fetched |-> FALSE]
       ELSE IF reply.kind = "rows" /\ Len(reply.events) > 0
            THEN LET season_avg == _calc_overall_avg_from_events(reply.events)
                     entry == [field |-> "value", val |-> season_avg, timestamp |-> t]
                 IN [outcome |-> "value", val |-> season_avg,
                     cache |-> [k \in DOMAIN c \cup {cache_key} |->
                                   IF k = cache_key THEN entry ELSE c[k]],
                     fetched |-> TRUE]
            ELSE [outcome |-> "none", val |-> PyNone,
                  cache |-> [k \in DOMAIN c \ {cache_key} |-> c[k]], fetched |-> TRUE]

\* mutant: the fetched average is returned without being cached
season_average_without_caching(player_id, c, t, reply) ==
    LET cache_key == SeasonKey(player_id)
    IN IF cache_key \in DOMAIN c /\ _is_cache_valid(c[cache_key].timestamp, t)
       THEN IF c[cache_key].field = "value"
            THEN [outcome |-> "value", val |-> c[cache_key].val, cache |-> c, fetched |-> FALSE]
            ELSE [outcome |-> "raise", val |-> PyNone, cache |-> c, fetched |-> FALSE]
       ELSE IF reply.kind = "rows" /\ Len(reply.events) > 0
            THEN [outcome |-> "value", val |-> _calc_overall_avg_from_events(reply.events),
                  cache |-> c, fetched |-> TRUE]
            ELSE [outcome |-> "none", val |-> PyNone, cache |-> c, fetched |-> TRUE]

\* result: outcome "value" (val returned), "none" (None returned) or
\* "raise" (an exception leaves the function: a live entry under the key
\* that has no 'value'); cache is the cache afterwards and fetched tells
\* whether the provider was called.  A failing fetch is caught at line 227.
_get_player_season_average(player_id, c, t, reply) ==
    LET cache_key == SeasonKey(player_id)
    IN IF cache_key \in DOMAIN c /\ _is_cache_valid(c[cache_key].timestamp, t)
       THEN IF c[cache_key].field = "value"
            THEN [outcome |-> "value", val |-> c[cache_key].val, cache |-> c, fetched |-> FALSE]
            ELSE [outcome |-> "raise", val |-> PyNone, cache |-> c, fetched |-> FALSE]
       ELSE IF reply.kind = "rows" /\ Len(reply.events) > 0
            THEN LET season_avg == _calc_overall_avg_from_events(reply.events)
                     entry == [field |-> "value", val |-> season_avg, timestamp |-> t]
                 IN [outcome |-> "value", val |-> season_avg,
                     cache |-> [k \in DOMAIN c \cup {cache_key} |->
                                   IF k = cache_key THEN entry ELSE c[k]],
                     fetched |-> TRUE]
            ELSE [outcome |-> "none", val |-> PyNone, cache |-> c, fetched |-> TRUE]

\* lines 116-123, given the lookup's result r: a value fills the masked
\* entries, and the try/except catches whatever the lookup raises
SeasonFill(series, r) ==
    [series |-> IF r.outcome = "value" THEN FillMasked(series, r.val) ELSE series,
     cache |-> r.cache,
     fetched |-> r.fetched,
     raised |-> FALSE]

\* mutant: the season lookup is made whether or not an identifier is given
season_average_fallback_without_identifier_test(series, player_id, c, t, reply) ==
    SeasonFill(series, _get_player_season_average(player_id, c, t, reply))

_apply_season_average_fallback(series, player_id, c, t, reply) ==
    IF Truthy(player_id)
    THEN SeasonFill(series, _get_player_season_average(player_id, c, t, reply))
    ELSE [series |-> series, cache |-> c, fetched |-> FALSE, raised |-> FALSE]

(***************************************************************************)
(* Tier 3.                                                                 *)
(***************************************************************************)
\* mutant: the tier-3 mask leaves out the range tests
final_fallback_skipping_range(series) ==
    [i \in DOMAIN series |->
        IF isnull(series[i]) \/ NumEq(series[i], Zero) THEN league_average ELSE series[i]]

_apply_final_fallback(series) == FillMasked(series, league_average)

(***************************************************************************)
(* The cascade on one column.  replies are the provider's answers to the   *)
(* calls still to come; used counts the calls made so far.                 *)
(***************************************************************************)
\* lines 89-98, given the result of tier 2
FinalTier(tier2, used) ==
    [series |-> IF tier2.raised THEN tier2.series ELSE _apply_final_fallback(tier2.series),
     cache |-> tier2.cache,
     used |-> IF tier2.fetched THEN used + 1 ELSE used,
     raised |-> tier2.raised]

\* mutant: the tiers run even when nothing is masked
batting_average_fallback_without_early_return(avg_series, player_id, c, t, replies, used) ==
    FinalTier(
        _apply_season_average_fallback(
            _apply_previous_game_fallback(avg_series, player_id, c, t),
            player_id, c, t, replies[used + 1]),
        used)

_apply_batting_average_fallback(avg_series, player_id, c, t, replies, used) ==
    IF ~AnyMasked(avg_series)
    THEN [series |-> avg_series, cache |-> c, used |-> used, raised |-> FALSE]
    ELSE FinalTier(
            _apply_season_average_fallback(
                _apply_previous_game_fallback(avg_series, player_id, c, t),
                player_id, c, t, replies[used + 1]),
            used)

(***************************************************************************)
(* Tables.  A table is [absent, cols, nrows, data]: cols the column names  *)
(* in order, data[c] the cells of column c.  absent stands for None.       *)
(***************************************************************************)
LowerChar(ch) ==
    CASE ch = "A" -> "a" [] ch = "V" -> "v" [] ch = "G" -> "g"
      [] ch = "E" -> "e" [] ch = "R" -> "r" [] ch = "S" -> "s"
      [] OTHER -> ch

RECURSIVE lower(_)
lower(str) ==
    IF Len(str) = 0 THEN ""
    ELSE LowerChar(SubSeq(str, 1, 1)) \o lower(SubSeq(str, 2, Len(str)))

\* Python's  sub in str
Contains(sub, str) ==
    \E i \in 1..(Len(str) - Len(sub) + 1) : SubSeq(str, i, i + Len(sub) - 1) = sub

IsAvgColumn(col) == Contains("avg", lower(col)) \/ Contains("average", lower(col))

\* the column names that occur in the tables of the model, and those among
\* them that line 45 selects
ColumnNames ==
    {"batting_avg", "Season_AVERAGE", "calculated_avg", "team", "hits", "at_bats",
     "events", "player_name"}

AvgColumnNames == {col \in ColumnNames : IsAvgColumn(col)}

InAvgColumnNames(col) == col \in AvgColumnNames

Columns(table) == {table.cols[i] : i \in DOMAIN table.cols}

\* avg_columns, in column order
avg_columns(table) == SelectSeq(table.cols, InAvgColumnNames)

empty(table) == Len(table.cols) = 0 \/ table.nrows = 0

\* the row labels of a table built without an index: 0, 1, ..., n-1
RangeIndex(n) == [i \in 1..n |-> i - 1]

EmptyDataFrame == [absent |-> FALSE, cols |-> <<>>, nrows |-> 0, data |-> <<>>, index |-> <<>>]

\* result_data[col] = series  (a new column goes last)
SetColumn(table, col, series) ==
    [table EXCEPT !.cols = IF col \in Columns(table) THEN @ ELSE Append(@, col),
                  !.data = [c \in Columns(table) \cup {col} |->
                               IF c = col THEN series ELSE table.data[c]]]

\* the events of the rows of one player_name group, in row order
RECURSIVE GroupEvents(_, _, _)
GroupEvents(table, name, i) ==
    IF i > table.nrows THEN <<>>
    ELSE IF table.data["player_name"][i] = name
         THEN <<table.data["events"][i]>> \o GroupEvents(table, name, i + 1)
         ELSE GroupEvents(table, name, i + 1)

_calc_player_avg_from_events(events) ==
    IF Len(events) = 0 THEN league_average
    ELSE Rat(CountHits(events), Len(events))

\* groupby drops the rows whose player_name is null: map() leaves them NaN
\* and fillna gives them the league average
\* The result is a Series: the mapped one keeps the row labels of the table,
\* the one built from a list is labelled 0, 1, ..., n-1.
_calculate_avg_from_events(table) ==
    IF "player_name" \in Columns(table)
    THEN [index |-> table.index,
          values |-> [i \in 1..table.nrows |->
                        LET name == table.data["player_name"][i]
                        IN IF isnull(name) THEN league_average
                           ELSE _calc_player_avg_from_events(GroupEvents(table, name, 1))]]
    ELSE [index |-> RangeIndex(table.nrows),
          values |-> [i \in 1..table.nrows |->
                        _calc_overall_avg_from_events(table.data["events"])]]

\* assigning a Series to a column aligns it on the row labels: a row whose
\* label the Series lacks gets NaN (labels are unique)
AssignSeries(table, col, series) ==
    SetColumn(table, col,
        [i \in 1..table.nrows |->
            IF \E j \in DOMAIN series.index : series.index[j] = table.index[i]
            THEN series.values[CHOOSE j \in DOMAIN series.index :
                                   series.index[j] = table.index[i]]
            ELSE NaN])

\* mutant: the division is not guarded against zero at-bats; what it
\* yields there is left null
calculate_batting_average_without_zero_guard(table) ==
    IF "hits" \in Columns(table) /\ "at_bats" \in Columns(table)
    THEN SetColumn(table, "calculated_avg",
            [i \in 1..table.nrows |->
                LET q == Div(table.data["hits"][i], table.data["at_bats"][i])
                IN IF isnull(q) /\ ~NumEq(table.data["at_bats"][i], Zero)
                   THEN league_average ELSE q])
    ELSE IF "events" \in Columns(table)
    THEN AssignSeries(table, "calculated_avg", _calculate_avg_from_events(table))
    ELSE SetColumn(table, "calculated_avg", [i \in 1..table.nrows |-> league_average])

_calculate_batting_average(table) ==
    IF "hits" \in Columns(table) /\ "at_bats" \in Columns(table)
    THEN SetColumn(table, "calculated_avg",
            [i \in 1..table.nrows |->
                LET at_bats_nonzero == IF NumEq(table.data["at_bats"][i], Zero)
                                       THEN NaN ELSE table.data["at_bats"][i]
                    q == Div(table.data["hits"][i], at_bats_nonzero)
                IN IF isnull(q) THEN league_average ELSE q])
    ELSE IF "events" \in Columns(table)
    THEN AssignSeries(table, "calculated_avg", _calculate_avg_from_events(table))
    ELSE SetColumn(table, "calculated_avg", [i \in 1..table.nrows |-> league_average])

\* the loop over avg_columns, threading the cache and the provider calls;
\* NextColumn is the loop body once the cascade has returned r for the column
RECURSIVE FallbackColumns(_, _, _, _, _, _, _)
NextColumn(table, columns, player_id, t, replies, r) ==
    IF r.raised
    THEN [data |-> table, cache |-> r.cache, used |-> r.used, raised |-> TRUE]
    ELSE FallbackColumns(SetColumn(table, Head(columns), r.series), Tail(columns),
                         player_id, r.cache, t, replies, r.used)

FallbackColumns(table, columns, player_id, c, t, replies, used) ==
    IF Len(columns) = 0
    THEN [data |-> table, cache |-> c, used |-> used, raised |-> FALSE]
    ELSE NextColumn(table, columns, player_id, t, replies,
                    _apply_batting_average_fallback(table.data[Head(columns)], player_id,
                                                    c, t, replies, used))

\* mutant: the guard for an absent or empty table is missing, so that
\* data.copy() is called on None
validate_batting_averages_without_guard(table, player_id, c, t, replies) ==
    IF table.absent
    THEN [data |-> table, cache |-> c, used |-> 0, raised |-> TRUE]
    ELSE FallbackColumns(
            IF Len(avg_columns(table)) = 0 THEN _calculate_batting_average(table) ELSE table,
            IF Len(avg_columns(table)) = 0 THEN <<"calculated_avg">> ELSE avg_columns(table),
            player_id, c, t, replies, 0)

validate_batting_averages(table, player_id, c, t, replies) ==
    IF table.absent \/ empty(table)
    THEN [data |-> EmptyDataFrame, cache |-> c, used |-> 0, raised |-> FALSE]
    ELSE FallbackColumns(
            IF Len(avg_columns(table)) = 0 THEN _calculate_batting_average(table) ELSE table,
            IF Len(avg_columns(table)) = 0 THEN <<"calculated_avg">> ELSE avg_columns(table),
            player_id, c, t, replies, 0)

(***************************************************************************)
(* cache_player_average, clear_cache, get_validation_stats                 *)
(***************************************************************************)
\* mutant: storing an entry drops the entries that have gone stale
cache_player_average_pruning_stale(player_id, batting_avg, c, t) ==
    IF Truthy(player_id) /\ ~IsNone(batting_avg) /\ Le(Zero, batting_avg) /\ Le(batting_avg, One)
    THEN [k \in {x \in DOMAIN c : _is_cache_valid(c[x].timestamp, t)} \cup {player_id.s} |->
            IF k = player_id.s
            THEN [field |-> "previous_avg", val |-> batting_avg, timestamp |-> t]
            ELSE c[k]]
    ELSE c

\* mutant: the upper range test is missing
cache_player_average_accepting_above_one(player_id, batting_avg, c, t) ==
    IF Truthy(player_id) /\ ~IsNone(batting_avg) /\ Le(Zero, batting_avg)
    THEN [k \in DOMAIN c \cup {player_id.s} |->
            IF k = player_id.s
            THEN [field |-> "previous_avg", val |-> batting_avg, timestamp |-> t]
            ELSE c[k]]
    ELSE c

\* mutant: an entry that exists keeps its timestamp
cache_player_average_keeping_timestamp(player_id, batting_avg, c, t) ==
    IF Truthy(player_id) /\ ~IsNone(batting_avg) /\ Le(Zero, batting_avg) /\ Le(batting_avg, One)
    THEN [k \in DOMAIN c \cup {player_id.s} |->
            IF k = player_id.s
            THEN [field |-> "previous_avg", val |-> batting_avg,
                  timestamp |-> IF k \in DOMAIN c THEN c[k].timestamp ELSE t]
            ELSE c[k]]
    ELSE c

cache_player_average(player_id, batting_avg, c, t) ==
    IF Truthy(player_id) /\ ~IsNone(batting_avg) /\ Le(Zero, batting_avg) /\ Le(batting_avg, One)
    THEN [k \in DOMAIN c \cup {player_id.s} |->
            IF k = player_id.s
            THEN [field |-> "previous_avg", val |-> batting_avg, timestamp |-> t]
            ELSE c[k]]
    ELSE c

\* mutant: only the season-scoped entries are dropped
clear_cache_keeping_explicit(c) ==
    [k \in {x \in DOMAIN c : c[x].field = "previous_avg"} |-> c[k]]

clear_cache(c) == EmptyCache

\* mutant: the season-scoped entries are not counted
validation_stats_counting_explicit(c, t) ==
    [cache_size |-> Cardinality({k \in DOMAIN c : c[k].field = "previous_avg"}),
     cache_duration_hours |-> Rat(total_seconds(cache_duration), 3600),
     last_validation |-> t,
     league_average |-> league_average]

get_validation_stats(c, t) ==
    [cache_size |-> Cardinality(DOMAIN c),
     cache_duration_hours |-> Rat(total_seconds(cache_duration), 3600),
     last_validation |-> t,
     league_average |-> league_average]

(***************************************************************************)
(* validate_player_data.  A player record is [absent, d]: absent stands    *)
(* for None, d is the dict (a function on the keys present).               *)
(***************************************************************************)
get(d, key) == IF key \in DOMAIN d THEN d[key] ELSE PyNone

\* Python's !=
PyNe(a, b) == IF a.t = "num" /\ b.t = "num" THEN ~NumEq(a, b) ELSE a # b

SetKey(d, key, value) == [k \in DOMAIN d \cup {key} |-> IF k = key THEN value ELSE d[k]]

required_fields ==
    <<[field |-> "name", default_value |-> PyStr("Unknown Player")],
      [field |-> "player_id", default_value |-> PyNone],
      [field |-> "position", default_value |-> PyStr("Unknown")],
      [field |-> "team", default_value |-> PyStr("Free Agent")],
      [field |-> "batting_avg", default_value |-> league_average]>>

\* mutant: the default record carries another quality bucket
default_player_data_low_quality ==
    [k \in {"name", "player_id", "position", "team", "batting_avg", "data_quality"} |->
        CASE k = "name" -> PyStr("Unknown Player")
          [] k = "player_id" -> PyNone
          [] k = "position" -> PyStr("Unknown")
          [] k = "team" -> PyStr("Free Agent")
          [] k = "batting_avg" -> league_average
          [] k = "data_quality" -> PyStr("LOW")]

_get_default_player_data ==
    [k \in {"name", "player_id", "position", "team", "batting_avg", "data_quality"} |->
        CASE k = "name" -> PyStr("Unknown Player")
          [] k = "player_id" -> PyNone
          [] k = "position" -> PyStr("Unknown")
          [] k = "team" -> PyStr("Free Agent")
          [] k = "batting_avg" -> league_average
          [] k = "data_quality" -> PyStr("INSUFFICIENT_DATA")]

total_fields == 5

quality_score(d) ==
    (IF Truthy(get(d, "name")) /\ PyNe(d["name"], PyStr("Unknown Player")) THEN 1 ELSE 0)
    + (IF Truthy(get(d, "player_id")) THEN 1 ELSE 0)
    + (IF Truthy(get(d, "position")) /\ PyNe(d["position"], PyStr("Unknown")) THEN 1 ELSE 0)
    + (IF Truthy(get(d, "team")) /\ PyNe(d["team"], PyStr("Free Agent")) THEN 1 ELSE 0)
    + (IF Truthy(get(d, "batting_avg")) /\ PyNe(d["batting_avg"], league_average) THEN 1 ELSE 0)

\* mutant: the thresholds are compared strictly
assess_data_quality_strict_thresholds(d) ==
    LET quality_percentage == Rat(quality_score(d), total_fields)
    IN IF Lt(Rat(8, 10), quality_percentage) THEN PyStr("HIGH")
       ELSE IF Lt(Rat(6, 10), quality_percentage) THEN PyStr("MEDIUM")
       ELSE IF Lt(Rat(4, 10), quality_percentage) THEN PyStr("LOW")
       ELSE PyStr("INSUFFICIENT_DATA")

\* quality_percentage = quality_score / total_fields, compared with 0.8, 0.6, 0.4
_assess_data_quality(d) ==
    LET quality_percentage == Rat(quality_score(d), total_fields)
    IN IF Le(Rat(8, 10), quality_percentage) THEN PyStr("HIGH")
       ELSE IF Le(Rat(6, 10), quality_percentage) THEN PyStr("MEDIUM")
       ELSE IF Le(Rat(4, 10), quality_percentage) THEN PyStr("LOW")
       ELSE PyStr("INSUFFICIENT_DATA")

RECURSIVE ApplyDefaults(_, _)
ApplyDefaults(d, i) ==
    IF i > Len(required_fields) THEN d
    ELSE LET f == required_fields[i]
         IN IF f.field \notin DOMAIN d \/ IsNone(d[f.field])
            THEN ApplyDefaults(SetKey(d, f.field, f.default_value), i + 1)
            ELSE ApplyDefaults(d, i + 1)

\* mutant: a data_quality supplied by the caller is kept
validate_player_data_keeping_supplied_quality(player_data) ==
    IF player_data.absent \/ DOMAIN player_data.d = {}
    THEN _get_default_player_data
    ELSE LET defaulted == ApplyDefaults(player_data.d, 1)
             avg == defaulted["batting_avg"]
             ranged == IF IsNone(avg) \/ Lt(avg, Zero) \/ Lt(One, avg)
                       THEN SetKey(defaulted, "batting_avg", league_average)
                       ELSE defaulted
         IN IF "data_quality" \in DOMAIN ranged
            THEN ranged
            ELSE SetKey(ranged, "data_quality", _assess_data_quality(ranged))

validate_player_data(player_data) ==
    IF player_data.absent \/ DOMAIN player_data.d = {}
    THEN _get_default_player_data
    ELSE LET defaulted == ApplyDefaults(player_data.d, 1)
             avg == defaulted["batting_avg"]
             ranged == IF IsNone(avg) \/ Lt(avg, Zero) \/ Lt(One, avg)
                       THEN SetKey(defaulted, "batting_avg", league_average)
                       ELSE defaulted
         IN SetKey(ranged, "data_quality", _assess_data_quality(ranged))

(***************************************************************************)
(* Inputs.                                                                 *)
(***************************************************************************)
SeqsUpTo(S, lo, hi) == UNION {[1..k -> S] : k \in lo..hi}

\* AvgTables have up to MaxRows rows, the other tables up to MaxSideRows
\* cells of an average column: valid, null, zero, negative, above one
AvgCells == {Rat(285, 1000), NaN, Zero, Rat(-1, 10), Rat(3, 2)}

SecondAvgCells == {Rat(3, 10), NaN}

\* (hits, at_bats) of one row
HitsAtBats == {<<Rat(1, 1), Rat(2, 1)>>, <<Rat(3, 1), Rat(2, 1)>>,
               <<NaN, Rat(2, 1)>>, <<Rat(1, 1), Zero>>}

EventCells == {PyStr("home_run"), PyStr("field_out")}

\* player names are non-null strings
NameCells == {PyStr("Player A"), PyStr("Player B")}

Table(cols, nrows, data) ==
    [absent |-> FALSE, cols |-> cols, nrows |-> nrows, data |-> data, index |-> RangeIndex(nrows)]

Const(nrows, v) == [i \in 1..nrows |-> v]

AvgTables ==
    {Table(<<"team", "batting_avg">>, Len(a),
           [c \in {"team", "batting_avg"} |->
               IF c = "team" THEN Const(Len(a), PyStr("LAA")) ELSE a])
        : a \in SeqsUpTo(AvgCells, 1, MaxRows)}

TwoAvgTables ==
    {Table(<<"batting_avg", "Season_AVERAGE">>, Len(ab),
           [c \in {"batting_avg", "Season_AVERAGE"} |->
               IF c = "batting_avg" THEN [i \in DOMAIN ab |-> ab[i][1]]
               ELSE [i \in DOMAIN ab |-> ab[i][2]]])
        : ab \in SeqsUpTo(SecondAvgCells \X SecondAvgCells, 1, MaxSideRows)}

HitsTables ==
    {Table(<<"hits", "at_bats">>, Len(r),
           [c \in {"hits", "at_bats"} |->
               IF c = "hits" THEN [i \in DOMAIN r |-> r[i][1]]
               ELSE [i \in DOMAIN r |-> r[i][2]]])
        : r \in SeqsUpTo(HitsAtBats, 1, MaxSideRows)}

EventTables ==
    {Table(<<"events">>, Len(e), [c \in {"events"} |-> e])
        : e \in SeqsUpTo(EventCells, 1, MaxSideRows)}

NamedEventTables ==
    {Table(<<"player_name", "events">>, Len(r),
           [c \in {"player_name", "events"} |->
               IF c = "player_name" THEN [i \in DOMAIN r |-> r[i][1]]
               ELSE [i \in DOMAIN r |-> r[i][2]]])
        : r \in SeqsUpTo(NameCells \X EventCells, 1, MaxSideRows)}

PlainTables ==
    {Table(<<"team">>, k, [c \in {"team"} |-> Const(k, PyStr("LAA"))]) : k \in 1..MaxSideRows}

AbsentTable == [absent |-> TRUE, cols |-> <<>>, nrows |-> 0, data |-> <<>>, index |-> <<>>]

NoRowsTable == Table(<<"batting_avg">>, 0, [c \in {"batting_avg"} |-> <<>>])

Tables ==
    AvgTables \cup TwoAvgTables \cup HitsTables \cup EventTables \cup NamedEventTables
    \cup PlainTables \cup {AbsentTable, EmptyDataFrame, NoRowsTable}

PlayerIds == {PyNone, PyStr(""), PyStr("p"), PyStr("season_avg_p")}

Replies ==
    {[kind |-> "raise", events |-> <<>>], [kind |-> "none", events |-> <<>>]}
    \cup {[kind |-> "rows", events |-> e] : e \in SeqsUpTo(EventCells, 0, MaxSeasonRows)}

\* what stands in the reply sequence for a call the provider never receives
NoReply == [kind |-> "none", events |-> <<>>]

CachedAverages == {PyNone, NaN, Rat(-1, 10), Zero, Rat(32, 100), Rat(3, 2)}

\* the number of columns the cascade will run on
NumAvgColumns(table) ==
    IF table.absent \/ empty(table) THEN 0
    ELSE IF Len(avg_columns(table)) = 0 THEN 1 ELSE Len(avg_columns(table))

(***************************************************************************)
(* The state machine.  call records the operation just made: its           *)
(* arguments, the cache and the clock it started from, and what it         *)
(* returned.  Operations are synchronous call-and-return: Return is the    *)
(* caller taking the result, after which the next operation can be made.   *)
(***************************************************************************)
NoCall ==
    [op |-> "init", data |-> EmptyDataFrame, player_id |-> PyNone, batting_avg |-> PyNone,
     player_data |-> [absent |-> TRUE, d |-> <<>>],
     pre |-> EmptyCache, at |-> 0, replies |-> <<>>,
     ret_data |-> EmptyDataFrame, ret_player |-> <<>>, ret_stats |-> <<>>, raised |-> FALSE,
     pc |-> "done"]

Init ==
    /\ cache = EmptyCache
    /\ cache_duration \in 1..MaxDuration
    /\ now = 0
    /\ call = NoCall

Idle == call.op = "init"

Return ==
    /\ ~Idle
    /\ call' = NoCall
    /\ UNCHANGED <<cache, cache_duration, now>>

Tick ==
    /\ Idle
    /\ now < MaxTime
    /\ now' = now + 1
    /\ UNCHANGED <<cache, cache_duration, call>>

\* the call has returned r; replies never asked for are not part of it
Returned(table, player_id, replies, r) ==
    /\ \A i \in (r.used + 1)..Len(replies) : replies[i] = NoReply
    /\ cache' = r.cache
    /\ call' = [NoCall EXCEPT !.op = "validate_batting_averages",
                              !.data = table, !.player_id = player_id,
                              !.pre = cache, !.at = now,
                              !.replies = SubSeq(replies, 1, r.used),
                              !.ret_data = r.data, !.raised = r.raised]

ValidateBattingAverages ==
    /\ Idle
    /\ \E table \in Tables, player_id \in PlayerIds :
        \E replies \in [1..NumAvgColumns(table) -> Replies] :
            Returned(table, player_id, replies,
                     validate_batting_averages(table, player_id, cache, now, replies))
    /\ UNCHANGED <<cache_duration, now>>

CachePlayerAverage ==
    /\ Idle
    /\ \E player_id \in PlayerIds, batting_avg \in CachedAverages :
        /\ cache' = cache_player_average(player_id, batting_avg, cache, now)
        /\ call' = [NoCall EXCEPT !.op = "cache_player_average",
                                  !.player_id = player_id, !.batting_avg = batting_avg,
                                  !.pre = cache, !.at = now]
        /\ UNCHANGED <<cache_duration, now>>

ClearCache ==
    /\ Idle
    /\ cache' = clear_cache(cache)
    /\ call' = [NoCall EXCEPT !.op = "clear_cache", !.pre = cache, !.at = now]
    /\ UNCHANGED <<cache_duration, now>>

GetValidationStats ==
    /\ Idle
    /\ call' = [NoCall EXCEPT !.op = "get_validation_stats", !.pre = cache, !.at = now,
                              !.ret_stats = get_validation_stats(cache, now)]
    /\ UNCHANGED <<cache, cache_duration, now>>

(***************************************************************************)
(* Player records given to validate_player_data.  Missing marks a key the  *)
(* dict does not have.                                                     *)
(***************************************************************************)
Missing == [t |-> "missing", s |-> "", n |-> 0, d |-> 1]

NameChoices == {Missing, PyNone, PyStr(""), PyStr("Unknown Player"), PyStr("Mike Trout")}

PlayerIdChoices == {Missing, PyNone, PyStr(""), PyStr("545361")}

PositionChoices == {Missing, PyNone, PyStr("Unknown"), PyStr("CF")}

TeamChoices == {Missing, PyNone, PyStr("Free Agent"), PyStr("Angels")}

BattingAvgChoices ==
    {Missing, PyNone, NaN, Zero, league_average, Rat(285, 1000), One, Rat(3, 2), Rat(-1, 10)}

DataQualityChoices == {Missing, PyStr("HIGH")}

MakeDict(name, player_id, position, team, batting_avg, data_quality) ==
    LET f == [k \in {"name", "player_id", "position", "team", "batting_avg", "data_quality"} |->
                CASE k = "name" -> name
                  [] k = "player_id" -> player_id
                  [] k = "position" -> position
                  [] k = "team" -> team
                  [] k = "batting_avg" -> batting_avg
                  [] k = "data_quality" -> data_quality]
    IN [k \in {x \in DOMAIN f : f[x] # Missing} |-> f[k]]

PlayerRecords ==
    {[absent |-> TRUE, d |-> <<>>]}
    \cup {[absent |-> FALSE, d |-> MakeDict(nm, pid, pos, tm, avg, dq)]
            : nm \in NameChoices, pid \in PlayerIdChoices, pos \in PositionChoices,
              tm \in TeamChoices, avg \in BattingAvgChoices, dq \in DataQualityChoices}

ValidatePlayerData ==
    /\ Idle
    /\ \E player_data \in PlayerRecords :
        call' = [NoCall EXCEPT !.op = "validate_player_data", !.player_data = player_data,
                               !.pre = cache, !.at = now,
                               !.ret_player = validate_player_data(player_data)]
    /\ UNCHANGED <<cache, cache_duration, now>>

Next == Return \/ Tick \/ ValidateBattingAverages \/ CachePlayerAverage \/ ClearCache \/ GetValidationStats

Spec == Init /\ [][Next]_vars

\* tables of hits and at_bats with up to MaxHitsRows rows: the pairs of the
\* test at tests/test_data_validator.py:59, null hits, hits above at_bats,
\* zero at_bats, zero hits, null at_bats
DerivedCells ==
    {<<Rat(85, 1), Rat(300, 1)>>, <<Rat(92, 1), Rat(320, 1)>>, <<Rat(78, 1), Rat(295, 1)>>,
     <<NaN, Rat(2, 1)>>, <<Rat(3, 1), Rat(2, 1)>>, <<Rat(1, 1), Zero>>,
     <<Zero, Rat(2, 1)>>, <<Rat(1, 1), NaN>>}

DerivedTables ==
    {Table(<<"hits", "at_bats">>, Len(r),
           [c \in {"hits", "at_bats"} |->
               IF c = "hits" THEN [i \in DOMAIN r |-> r[i][1]]
               ELSE [i \in DOMAIN r |-> r[i][2]]])
        : r \in SeqsUpTo(DerivedCells, 1, MaxHitsRows)}

\* validate_batting_averages on a table without an average-like column
ValidateDerivedAverages ==
    /\ Idle
    /\ \E table \in DerivedTables, player_id \in PlayerIds :
        \E replies \in [1..NumAvgColumns(table) -> Replies] :
            Returned(table, player_id, replies,
                     validate_batting_averages(table, player_id, cache, now, replies))
    /\ UNCHANGED <<cache_duration, now>>

NextDerived == Return \/ ValidateDerivedAverages

SpecDerived == Init /\ [][NextDerived]_vars

\* all the public operations on one validator; the records given to
\* validate_player_data are a selection of PlayerRecords
\* Tables for the derivation of the column: events tables with and
\* without player_name, with the row labels of a table built as it is
\* (0, 1, ...) or of one obtained by dropping rows of a larger table, and
\* one-row tables combining the columns the derivation looks at.
PrecedenceEventCells == {PyStr("home_run"), PyStr("field_out"), PyNone}

RowLabels(n) == {RangeIndex(n), [i \in 1..n |-> i], [i \in 1..n |-> 2 * i]}

Reindexed(table, index) == [table EXCEPT !.index = index]

GroupedEventTables ==
    {Reindexed(Table(<<"player_name", "events">>, Len(r),
                     [c \in {"player_name", "events"} |->
                         IF c = "player_name" THEN [i \in DOMAIN r |-> r[i][1]]
                         ELSE [i \in DOMAIN r |-> r[i][2]]]), ix)
        : <<r, ix>> \in UNION {{<<r, ix>> : ix \in RowLabels(Len(r))}
                                 : r \in SeqsUpTo(NameCells \X PrecedenceEventCells,
                                                  1, MaxEventRows)}}

UngroupedEventTables ==
    {Reindexed(Table(<<"events">>, Len(r[1]), [c \in {"events"} |-> r[1]]), r[2])
        : r \in UNION {{<<e, ix>> : ix \in RowLabels(Len(e))}
                         : e \in SeqsUpTo(PrecedenceEventCells, 1, MaxEventRows)}}

OneRow(cols, cells) == Table(cols, 1, [c \in DOMAIN cells |-> <<cells[c]>>])

MixedTables ==
    {OneRow(<<"hits", "at_bats", "events">>,
            [hits |-> Rat(1, 1), at_bats |-> Rat(2, 1), events |-> PyStr("home_run")]),
     OneRow(<<"batting_avg", "hits", "at_bats">>,
            [batting_avg |-> NaN, hits |-> Rat(1, 1), at_bats |-> Rat(2, 1)]),
     OneRow(<<"Season_AVERAGE", "events">>,
            [Season_AVERAGE |-> Rat(3, 10), events |-> PyStr("home_run")]),
     OneRow(<<"hits", "events">>, [hits |-> Rat(1, 1), events |-> PyStr("home_run")]),
     OneRow(<<"hits">>, [hits |-> Rat(1, 1)]),
     OneRow(<<"team">>, [team |-> PyStr("LAA")])}

PrecedenceTables == GroupedEventTables \cup UngroupedEventTables \cup MixedTables

\* validate_batting_averages on the tables of the derivation
ValidatePrecedenceTable ==
    /\ Idle
    /\ \E table \in PrecedenceTables, player_id \in PlayerIds :
        \E replies \in [1..NumAvgColumns(table) -> Replies] :
            Returned(table, player_id, replies,
                     validate_batting_averages(table, player_id, cache, now, replies))
    /\ UNCHANGED <<cache_duration, now>>

NextPrecedence == Return \/ ValidatePrecedenceTable

SpecPrecedence == Init /\ [][NextPrecedence]_vars

(***************************************************************************)
(* validate_batting_averages step by step, on a table with one average     *)
(* column, while another thread of the host calls clear_cache or           *)
(* cache_player_average on the same validator.  call.pc is the position of *)
(* the validating thread, call.ret_data its validated_data; each step is   *)
(* one access to self.cache together with the thread-local work up to the  *)
(* next access.                                                            *)
(***************************************************************************)
Running == call.op = "validate_batting_averages" /\ call.pc # "done"

At(pc) == call.op = "validate_batting_averages" /\ call.pc = pc

WorkingSeries == call.ret_data.data["batting_avg"]

Goto(pc, series) ==
    call' = [call EXCEPT !.pc = pc,
                         !.ret_data = SetColumn(call.ret_data, "batting_avg", series)]

\* the tables of the validating thread have one row
ThreadTables == {table \in AvgTables : table.nrows = 1}

\* lines 38-79: the guard, the copy, the column and the mask
BeginValidation ==
    /\ Idle
    /\ \E table \in ThreadTables, player_id \in PlayerIds :
        call' = [NoCall EXCEPT !.op = "validate_batting_averages",
                               !.data = table, !.player_id = player_id,
                               !.at = now, !.ret_data = table,
                               !.pc = IF AnyMasked(table.data["batting_avg"])
                                      THEN "tier1_test" ELSE "done"]
    /\ UNCHANGED <<cache, cache_duration, now>>

\* line 102: player_id and player_id in self.cache
Tier1MembershipTest ==
    /\ At("tier1_test")
    /\ Goto(IF Truthy(call.player_id) /\ call.player_id.s \in DOMAIN cache
            THEN "tier1_read" ELSE "tier2_test", WorkingSeries)
    /\ UNCHANGED <<cache, cache_duration, now>>

\* lines 103-108: self.cache[player_id] raises KeyError when the key is
\* gone; nothing up the call chain catches it
Tier1Read ==
    /\ At("tier1_read")
    /\ IF call.player_id.s \in DOMAIN cache
       THEN Goto("tier2_test",
                 _apply_previous_game_fallback(WorkingSeries, call.player_id, cache, now))
       ELSE call' = [call EXCEPT !.pc = "done", !.raised = TRUE, !.ret_data = EmptyDataFrame]
    /\ UNCHANGED <<cache, cache_duration, now>>

\* lines 114 and 200: if player_id, then cache_key in self.cache
Tier2MembershipTest ==
    /\ At("tier2_test")
    /\ Goto(IF ~Truthy(call.player_id) THEN "tier3"
            ELSE IF SeasonKey(call.player_id) \in DOMAIN cache THEN "tier2_read"
            ELSE "tier2_fetch", WorkingSeries)
    /\ UNCHANGED <<cache, cache_duration, now>>

\* lines 201-203 and 117-121: a KeyError here, for a key that is gone or
\* for an entry without 'value', is caught at line 122
Tier2Read ==
    /\ At("tier2_read")
    /\ LET cache_key == SeasonKey(call.player_id)
       IN IF cache_key \notin DOMAIN cache
          THEN Goto("tier3", WorkingSeries)
          ELSE IF ~_is_cache_valid(cache[cache_key].timestamp, now)
          THEN Goto("tier2_fetch", WorkingSeries)
          ELSE IF cache[cache_key].field = "value"
          THEN Goto("tier3", FillMasked(WorkingSeries, cache[cache_key].val))
          ELSE Goto("tier3", WorkingSeries)
    /\ UNCHANGED <<cache, cache_duration, now>>

\* lines 205-230 and 117-121: the fetch, the cache write and the fill
Tier2Fetch ==
    /\ At("tier2_fetch")
    /\ \E reply \in Replies :
        IF reply.kind = "rows" /\ Len(reply.events) > 0
        THEN LET season_avg == _calc_overall_avg_from_events(reply.events)
                 cache_key == SeasonKey(call.player_id)
             IN /\ cache' = [k \in DOMAIN cache \cup {cache_key} |->
                                IF k = cache_key
                                THEN [field |-> "value", val |-> season_avg, timestamp |-> now]
                                ELSE cache[k]]
                /\ call' = [call EXCEPT !.pc = "tier3", !.replies = Append(@, reply),
                                        !.ret_data = SetColumn(call.ret_data, "batting_avg",
                                                        FillMasked(WorkingSeries, season_avg))]
        ELSE /\ cache' = cache
             /\ call' = [call EXCEPT !.pc = "tier3", !.replies = Append(@, reply)]
    /\ UNCHANGED <<cache_duration, now>>

\* lines 89-98 and 58-60: tier 3 and the return
Tier3 ==
    /\ At("tier3")
    /\ Goto("done", _apply_final_fallback(WorkingSeries))
    /\ UNCHANGED <<cache, cache_duration, now>>

\* the other thread: clear_cache while the validation is running
ConcurrentClearCache ==
    /\ Running
    /\ cache # EmptyCache
    /\ cache' = clear_cache(cache)
    /\ UNCHANGED <<cache_duration, now, call>>

\* the other thread: cache_player_average while the validation is running
ConcurrentCachePlayerAverage ==
    /\ Running
    /\ \E player_id \in PlayerIds, batting_avg \in CachedAverages :
        /\ cache' = cache_player_average(player_id, batting_avg, cache, now)
        /\ cache' # cache
    /\ UNCHANGED <<cache_duration, now, call>>

\* the caller takes the result of a finished call
Finished ==
    /\ call.pc = "done"
    /\ Return

NextThreads ==
    \/ Finished \/ Tick
    \/ BeginValidation \/ Tier1MembershipTest \/ Tier1Read
    \/ Tier2MembershipTest \/ Tier2Read \/ Tier2Fetch \/ Tier3
    \/ ConcurrentClearCache \/ ConcurrentCachePlayerAverage

SpecThreads == Init /\ [][NextThreads]_vars

LifecycleRecords ==
    {[absent |-> TRUE, d |-> <<>>]}
    \cup {[absent |-> FALSE, d |-> MakeDict(nm, pid, pos, tm, avg, dq)]
            : nm \in {Missing, PyStr("Mike Trout")},
              pid \in {Missing, PyStr(""), PyStr("545361")},
              pos \in {Missing, PyStr("CF")},
              tm \in {PyNone, PyStr("Angels")},
              avg \in {Missing, NaN, Zero, Rat(285, 1000), Rat(3, 2)},
              dq \in DataQualityChoices}

ValidatePlayerRecord ==
    /\ Idle
    /\ \E player_data \in LifecycleRecords :
        call' = [NoCall EXCEPT !.op = "validate_player_data", !.player_data = player_data,
                               !.pre = cache, !.at = now,
                               !.ret_player = validate_player_data(player_data)]
    /\ UNCHANGED <<cache, cache_duration, now>>

NextAll == Next \/ ValidatePlayerRecord

SpecAll == Init /\ [][NextAll]_vars

\* validate_player_data neither reads nor writes the cache: its calls are
\* explored on their own
NextPlayer == Return \/ ValidatePlayerData

SpecPlayer == Init /\ [][NextPlayer]_vars

(***************************************************************************)
(* Vocabulary of the properties: the call just made, seen from outside.    *)
(***************************************************************************)
IsValidate == call.op = "validate_batting_averages"

NonEmptyInput == ~call.data.absent /\ ~empty(call.data)

HasAvgColumn == Len(avg_columns(call.data)) > 0

\* the table the cascade runs on and the columns it runs on, in order
Cascaded == IF HasAvgColumn THEN call.data ELSE _calculate_batting_average(call.data)

TargetColumns == IF HasAvgColumn THEN avg_columns(call.data) ELSE <<"calculated_avg">>

Targets == {TargetColumns[k] : k \in DOMAIN TargetColumns}

FirstTarget == TargetColumns[1]

Rows == 1..call.data.nrows

InCell(col, i) == Cascaded.data[col][i]

OutCell(col, i) == call.ret_data.data[col][i]

InRange(v) == ~isnull(v) /\ Le(Zero, v) /\ Le(v, One)

Invalid(v) == isnull(v) \/ v = Rat(0, 1) \/ Lt(v, Rat(0, 1)) \/ Lt(Rat(1, 1), v)

LeagueAverage == Rat(244, 1000)

\* the explicit entry of the identifier, its age, and whether it is live
HasPrev ==
    /\ Truthy(call.player_id)
    /\ call.player_id.s \in DOMAIN call.pre
    /\ call.pre[call.player_id.s].field = "previous_avg"

PrevEntry == call.pre[call.player_id.s]

Age(entry) == call.at - entry.timestamp

LivePrev == HasPrev /\ Age(PrevEntry) < cache_duration

\* the season-scoped entry of the identifier
SKey == "season_avg_" \o call.player_id.s

LiveSeasonEntry ==
    /\ Truthy(call.player_id)
    /\ SKey \in DOMAIN call.pre
    /\ call.pre[SKey].field = "value"
    /\ Age(call.pre[SKey]) < cache_duration

Failed(reply) == reply.kind \in {"raise", "none"} \/ Len(reply.events) = 0

HitRatio(events) ==
    Rat(Cardinality({i \in DOMAIN events :
                        events[i].s \in {"single", "double", "triple", "home_run"}}),
        Len(events))

\* the provider answers still owed to a re-run of the call
Padded == call.replies \o <<NoReply, NoReply>>

(***************************************************************************)
(* C1: after validate_batting_averages of a non-empty table, whatever the  *)
(* identifier, the cache and the provider's answers, the call has not      *)
(* raised and every average-like column of the result has one value per    *)
(* row, none null and all within [0,1].                                    *)
(***************************************************************************)
C1_NoNullInRange ==
    (IsValidate /\ NonEmptyInput) =>
        /\ ~call.raised
        /\ Len(avg_columns(call.ret_data)) > 0
        /\ \A k \in DOMAIN avg_columns(call.ret_data) :
              LET series == call.ret_data.data[avg_columns(call.ret_data)[k]]
              IN /\ Len(series) = call.data.nrows
                 /\ \A i \in DOMAIN series : InRange(series[i])

\* a masked column validated for "p" while a live explicit entry sits under
\* the season-scoped key of "p" (the lookup of tier 2 raises)
C1_Witness ==
    /\ IsValidate /\ NonEmptyInput
    /\ call.player_id = PyStr("p")
    /\ "season_avg_p" \in DOMAIN call.pre
    /\ call.pre["season_avg_p"].field = "previous_avg"
    /\ Age(call.pre["season_avg_p"]) < cache_duration
    /\ \E i \in Rows : Lt(One, InCell(FirstTarget, i))

(***************************************************************************)
(* C2: the cascade is a strict priority order.  Every invalid entry of an  *)
(* average column becomes the cached previous_avg when the identifier has  *)
(* a live entry, else the season average when one is available, else the   *)
(* league average.  (Stated for the first column the cascade runs on,      *)
(* whose tiers see the cache as it was when the call began.)               *)
(***************************************************************************)
SeasonAvailable ==
    /\ Truthy(call.player_id)
    /\ \/ LiveSeasonEntry
       \/ Len(call.replies) >= 1 /\ ~Failed(call.replies[1])

SeasonValue ==
    IF LiveSeasonEntry THEN call.pre[SKey].val ELSE HitRatio(call.replies[1].events)

C2_StrictPriority ==
    (IsValidate /\ NonEmptyInput) =>
        \A i \in Rows :
            Invalid(InCell(FirstTarget, i)) =>
                OutCell(FirstTarget, i) =
                    IF LivePrev THEN PrevEntry.val
                    ELSE IF SeasonAvailable THEN SeasonValue
                    ELSE LeagueAverage

(***************************************************************************)
(* C3: after cache_player_average(id, v) with v in [0,1], and while that   *)
(* entry is live, validating a table whose average columns are all null    *)
(* with the same id yields v in every entry.                               *)
(***************************************************************************)
C3_CachedValuePreempts ==
    (/\ IsValidate /\ NonEmptyInput /\ HasAvgColumn
     /\ LivePrev
     /\ \A col \in Targets : \A i \in Rows : isnull(InCell(col, i))) =>
        \A col \in Targets : \A i \in Rows : OutCell(col, i) = PrevEntry.val

(***************************************************************************)
(* C4: an explicit entry is live exactly while now - timestamp is less     *)
(* than cache_duration.  Tier 1 writes its previous_avg into the masked    *)
(* values when it is live and leaves the column alone when it is stale     *)
(* (age equal to the duration included); with a stale entry the whole      *)
(* call returns what it returns when the entry is not in the cache.        *)
(***************************************************************************)
Without(c, key) == [k \in DOMAIN c \ {key} |-> c[k]]

C4_StaleEntrySkipped ==
    (IsValidate /\ NonEmptyInput /\ HasPrev) =>
        /\ \A col \in Targets :
              LET series == Cascaded.data[col]
                  tier1 == _apply_previous_game_fallback(series, call.player_id, call.pre, call.at)
              IN IF call.at - PrevEntry.timestamp < cache_duration
                 THEN tier1 = [i \in DOMAIN series |->
                                  IF Invalid(series[i]) THEN PrevEntry.val ELSE series[i]]
                 ELSE tier1 = series
        /\ (call.at - PrevEntry.timestamp < cache_duration /\ ~Invalid(PrevEntry.val)) =>
              \A col \in Targets : \A i \in Rows :
                  Invalid(InCell(col, i)) => OutCell(col, i) = PrevEntry.val
        /\ call.at - PrevEntry.timestamp >= cache_duration =>
              call.ret_data =
                  validate_batting_averages(call.data, call.player_id,
                                            Without(call.pre, call.player_id.s),
                                            call.at, Padded).data

\* an entry whose age equals the duration, met by a masked column
C4_Witness ==
    /\ IsValidate /\ NonEmptyInput /\ HasPrev
    /\ call.at - PrevEntry.timestamp = cache_duration
    /\ ~Invalid(PrevEntry.val)
    /\ \E i \in Rows : Invalid(InCell(FirstTarget, i))

(***************************************************************************)
(* C5: when no identifier is given, or the identifier has neither a live   *)
(* explicit entry nor an obtainable season average (no live season entry   *)
(* and every fetch fails or returns nothing), every invalid value of an    *)
(* average column becomes exactly 0.244.                                   *)
(***************************************************************************)
C5_LeagueAverageFallback ==
    (/\ IsValidate /\ NonEmptyInput
     /\ \/ ~Truthy(call.player_id)
        \/ /\ ~LivePrev
           /\ ~LiveSeasonEntry
           /\ \A k \in DOMAIN call.replies : Failed(call.replies[k])) =>
        \A col \in Targets : \A i \in Rows :
            Invalid(InCell(col, i)) => OutCell(col, i) = LeagueAverage

\* a stale explicit entry, a failing fetch, and a masked column
C5_Witness ==
    /\ IsValidate /\ NonEmptyInput /\ HasPrev
    /\ ~LivePrev
    /\ ~Invalid(PrevEntry.val)
    /\ Len(call.replies) = 1 /\ call.replies[1].kind = "raise"
    /\ \E i \in Rows : Invalid(InCell(FirstTarget, i))

(***************************************************************************)
(* C6: the kind of invalidity never influences the result.  Within one     *)
(* call all masked entries of a column receive one value, and that value   *)
(* is the one a single null entry receives under the same identifier,      *)
(* cache, clock and provider answers.                                      *)
(***************************************************************************)
NullProbe == Table(<<"batting_avg">>, 1, [c \in {"batting_avg"} |-> <<NaN>>])

ProbeValue ==
    validate_batting_averages(NullProbe, call.player_id, call.pre, call.at, Padded)
        .data.data["batting_avg"][1]

C6_InvalidityKindIrrelevant ==
    (IsValidate /\ NonEmptyInput) =>
        /\ \A col \in Targets : \A i, j \in Rows :
              (Invalid(InCell(col, i)) /\ Invalid(InCell(col, j))) =>
                  OutCell(col, i) = OutCell(col, j)
        /\ \A i \in Rows :
              Invalid(InCell(FirstTarget, i)) => OutCell(FirstTarget, i) = ProbeValue

\* a null and a zero in one column, with a live non-zero explicit entry
C6_Witness ==
    /\ IsValidate /\ NonEmptyInput /\ LivePrev
    /\ ~Invalid(PrevEntry.val)
    /\ \E i, j \in Rows : isnull(InCell(FirstTarget, i)) /\ InCell(FirstTarget, j) = Zero

(***************************************************************************)
(* C7: when every fetch of the call raises, the call does not raise, the   *)
(* cache is left as it was (no season-scoped entry is written), and the    *)
(* values still masked after tier 1 become the league average.             *)
(***************************************************************************)
AllFetchesRaise ==
    /\ Len(call.replies) >= 1
    /\ \A k \in DOMAIN call.replies : call.replies[k].kind = "raise"

C7_FetchFailureSwallowed ==
    (IsValidate /\ AllFetchesRaise) =>
        /\ ~call.raised
        /\ cache = call.pre
        /\ \A col \in Targets : \A i \in Rows :
              Invalid(InCell(col, i)) =>
                  OutCell(col, i) =
                      IF LivePrev /\ ~Invalid(PrevEntry.val) THEN PrevEntry.val
                      ELSE LeagueAverage

\* the fetch raises while a stale season entry is in the cache
C7_Witness ==
    /\ IsValidate /\ AllFetchesRaise
    /\ SKey \in DOMAIN call.pre
    /\ call.pre[SKey].field = "value"
    /\ ~Invalid(call.pre[SKey].val)
    /\ ~LivePrev

(***************************************************************************)
(* C8: values that are already valid are returned unchanged by the call    *)
(* and by each tier on its own, whatever the cache holds and the provider  *)
(* answers; columns that are not average-like are returned unchanged and   *)
(* the columns keep their order.                                           *)
(***************************************************************************)
C8_ValidValuesUnchanged ==
    (IsValidate /\ NonEmptyInput) =>
        /\ call.ret_data.cols = Cascaded.cols
        /\ call.ret_data.nrows = call.data.nrows
        /\ \A col \in Columns(call.data) \ Targets :
              call.ret_data.data[col] = call.data.data[col]
        /\ \A col \in Targets : \A i \in Rows :
              LET series == Cascaded.data[col]
              IN ~Invalid(series[i]) =>
                    /\ OutCell(col, i) = series[i]
                    /\ _apply_previous_game_fallback(series, call.player_id,
                                                     call.pre, call.at)[i] = series[i]
                    /\ \A reply \in Replies :
                          _apply_season_average_fallback(series, call.player_id, call.pre,
                                                         call.at, reply).series[i] = series[i]
                    /\ _apply_final_fallback(series)[i] = series[i]

\* a column with a valid and a masked value, under a live explicit entry
C8_Witness ==
    /\ IsValidate /\ NonEmptyInput /\ LivePrev
    /\ ~Invalid(PrevEntry.val)
    /\ "team" \in Columns(call.data)
    /\ \E i, j \in Rows : ~Invalid(InCell(FirstTarget, i)) /\ Invalid(InCell(FirstTarget, j))

(***************************************************************************)
(* C9: validate_player_data of None or of an empty mapping returns the     *)
(* canonical default record.                                               *)
(***************************************************************************)
IsValidatePlayer == call.op = "validate_player_data"

C9_DefaultRecord ==
    (IsValidatePlayer /\ (call.player_data.absent \/ DOMAIN call.player_data.d = {})) =>
        call.ret_player =
            [name |-> PyStr("Unknown Player"), player_id |-> PyNone,
             position |-> PyStr("Unknown"), team |-> PyStr("Free Agent"),
             batting_avg |-> Rat(244, 1000), data_quality |-> PyStr("INSUFFICIENT_DATA")]

C9_Witness ==
    /\ IsValidatePlayer
    /\ ~call.player_data.absent
    /\ DOMAIN call.player_data.d = {}
    /\ DOMAIN call.ret_player # {}

(***************************************************************************)
(* C10: for every input mapping the result of validate_player_data has     *)
(* the five required fields and data_quality, a batting_avg within [0,1]   *)
(* and a data_quality among HIGH, MEDIUM, LOW, INSUFFICIENT_DATA.          *)
(***************************************************************************)
C10_RecordComplete ==
    IsValidatePlayer =>
        /\ {"name", "player_id", "position", "team", "batting_avg", "data_quality"}
              \subseteq DOMAIN call.ret_player
        /\ InRange(call.ret_player["batting_avg"])
        /\ call.ret_player["data_quality"] \in
              {PyStr("HIGH"), PyStr("MEDIUM"), PyStr("LOW"), PyStr("INSUFFICIENT_DATA")}

(***************************************************************************)
(* Vocabulary of the player-record properties.                             *)
(***************************************************************************)
PIn == call.player_data.d

POut == call.ret_player

FiveFields == {"name", "player_id", "position", "team", "batting_avg"}

FieldDefault(f) ==
    CASE f = "name" -> PyStr("Unknown Player")
      [] f = "player_id" -> PyNone
      [] f = "position" -> PyStr("Unknown")
      [] f = "team" -> PyStr("Free Agent")
      [] f = "batting_avg" -> Rat(244, 1000)

MissingOrNull(d, f) == f \notin DOMAIN d \/ isnull(d[f])

(***************************************************************************)
(* C11: in the result of validate_player_data each required field that is  *)
(* missing or null in the input holds its default, every other field       *)
(* holds its input value, except that a batting_avg outside [0,1] has      *)
(* become 0.244 (one inside [0,1], exactly 0 included, is kept).           *)
(***************************************************************************)
C11_FieldDefaults ==
    IsValidatePlayer =>
        \A f \in FiveFields :
            POut[f] = IF MissingOrNull(PIn, f) THEN FieldDefault(f)
                      ELSE IF f = "batting_avg" /\ ~InRange(PIn[f]) THEN LeagueAverage
                      ELSE PIn[f]

(***************************************************************************)
(* C12: data_quality is determined by the score alone: 4 or 5 gives HIGH,  *)
(* 3 MEDIUM, 2 LOW, 0 or 1 INSUFFICIENT_DATA.  A record whose five fields  *)
(* are all populated with non-default values is HIGH, and a record that    *)
(* holds nothing but defaults is INSUFFICIENT_DATA.                        *)
(***************************************************************************)
Bucket(score) ==
    IF score >= 4 THEN PyStr("HIGH")
    ELSE IF score = 3 THEN PyStr("MEDIUM")
    ELSE IF score = 2 THEN PyStr("LOW")
    ELSE PyStr("INSUFFICIENT_DATA")

FullyPopulated(d) ==
    \A f \in FiveFields :
        ~MissingOrNull(d, f) /\ d[f] # PyStr("") /\ d[f] # FieldDefault(f)

OnlyDefaults(d) ==
    \A f \in FiveFields : f \notin DOMAIN d \/ IsNone(d[f]) \/ d[f] = FieldDefault(f)

C12_BucketByScore ==
    IsValidatePlayer =>
        /\ POut["data_quality"] = Bucket(quality_score(POut))
        /\ FullyPopulated(PIn) => POut["data_quality"] = PyStr("HIGH")
        /\ OnlyDefaults(PIn) => POut["data_quality"] = PyStr("INSUFFICIENT_DATA")

\* a record on the MEDIUM boundary: exactly three conditions hold
C12_Witness ==
    /\ IsValidatePlayer
    /\ DOMAIN PIn # {}
    /\ quality_score(POut) = 3
    /\ POut["data_quality"] = PyStr("MEDIUM")

(***************************************************************************)
(* C13: the batting_avg condition scores exactly when batting_avg is       *)
(* present and differs from 0.244 (for every in-range value, 0 included)   *)
(* and the player_id condition scores exactly when player_id is present,   *)
(* so the bucket of a record with an in-range batting_avg is the bucket    *)
(* of the count of these conditions.  (An empty string is taken as not     *)
(* present, here and for name, position and team.)                         *)
(***************************************************************************)
Present(d, f) == f \in DOMAIN d /\ ~isnull(d[f]) /\ d[f] # PyStr("")

ConditionHolds(d, f) ==
    IF f = "player_id" THEN Present(d, f)
    ELSE Present(d, f) /\ d[f] # FieldDefault(f)

ConditionCount(d) == Cardinality({f \in FiveFields : ConditionHolds(d, f)})

C13_ScoreConditions ==
    (IsValidatePlayer /\ InRange(POut["batting_avg"])) =>
        POut["data_quality"] = Bucket(ConditionCount(POut))

(***************************************************************************)
(* Vocabulary of the cache properties.                                     *)
(***************************************************************************)
IsCachePlayerAverage == call.op = "cache_player_average"

Acceptable(v) == ~isnull(v) /\ Le(Rat(0, 1), v) /\ Le(v, Rat(1, 1))

ExplicitEntry(v, t) == [field |-> "previous_avg", val |-> v, timestamp |-> t]

(***************************************************************************)
(* C14: cache_player_average(id, v) with v null, below 0 or above 1        *)
(* leaves the cache exactly as it was, a prior entry of id included, and   *)
(* does not raise.                                                         *)
(***************************************************************************)
C14_RejectedValueNoOp ==
    (IsCachePlayerAverage /\ ~Acceptable(call.batting_avg)) =>
        /\ cache = call.pre
        /\ ~call.raised

\* a value above 1 offered for an identifier that has an entry
C14_Witness ==
    /\ IsCachePlayerAverage
    /\ Lt(Rat(1, 1), call.batting_avg)
    /\ call.player_id = PyStr("p")
    /\ "p" \in DOMAIN call.pre
    /\ "p" \in DOMAIN cache

(***************************************************************************)
(* C15: cache_player_average(id, v) with v non-null and in [0,1] stores    *)
(* {previous_avg: v, timestamp: now} under id for any identifier,          *)
(* replacing a prior entry of id and leaving all other keys as they were.  *)
(***************************************************************************)
C15_StoredForAnyIdentifier ==
    (IsCachePlayerAverage /\ call.player_id.t = "str" /\ Acceptable(call.batting_avg)) =>
        /\ DOMAIN cache = DOMAIN call.pre \cup {call.player_id.s}
        /\ cache[call.player_id.s] = ExplicitEntry(call.batting_avg, call.at)
        /\ \A k \in DOMAIN call.pre \ {call.player_id.s} : cache[k] = call.pre[k]

(***************************************************************************)
(* C15 as amended: the same for every non-empty identifier, the stored     *)
(* entry being live at the time of the call; with an absent or empty       *)
(* identifier the call leaves the cache as it was.                         *)
(***************************************************************************)
C15_StoredForNonEmptyIdentifier ==
    (IsCachePlayerAverage /\ Acceptable(call.batting_avg)) =>
        IF call.player_id.t = "str" /\ call.player_id.s # ""
        THEN /\ DOMAIN cache = DOMAIN call.pre \cup {call.player_id.s}
             /\ cache[call.player_id.s] = ExplicitEntry(call.batting_avg, call.at)
             /\ call.at - cache[call.player_id.s].timestamp < cache_duration
             /\ \A k \in DOMAIN call.pre \ {call.player_id.s} : cache[k] = call.pre[k]
        ELSE cache = call.pre

\* a stale entry of the identifier is replaced while another key is present
C15_Witness ==
    /\ IsCachePlayerAverage /\ Acceptable(call.batting_avg)
    /\ call.player_id = PyStr("p")
    /\ "p" \in DOMAIN call.pre
    /\ call.at - call.pre["p"].timestamp >= cache_duration
    /\ call.pre["p"].val # call.batting_avg
    /\ DOMAIN call.pre \ {"p"} # {}
    /\ cache["p"].timestamp = call.at

(***************************************************************************)
(* C16: after clear_cache the cache is empty, whatever was in it (explicit *)
(* and season-scoped entries alike), and a validation that follows, at     *)
(* any later time, finds tier 1 idle for every identifier that had an      *)
(* entry.                                                                  *)
(***************************************************************************)
IsClearCache == call.op = "clear_cache"

ProbeSeries == <<NaN, Rat(0, 1), Rat(3, 2)>>

C16_ClearEmptiesCache ==
    IsClearCache =>
        /\ cache = <<>>
        /\ Cardinality(DOMAIN cache) = 0
        /\ \A id \in PlayerIds : \A t \in now..MaxTime :
              (id.s \in DOMAIN call.pre) =>
                  _apply_previous_game_fallback(ProbeSeries, id, cache, t) = ProbeSeries

\* the cache held a live explicit entry and a season-scoped entry
C16_Witness ==
    /\ IsClearCache
    /\ "p" \in DOMAIN call.pre
    /\ call.pre["p"].field = "previous_avg"
    /\ call.at - call.pre["p"].timestamp < cache_duration
    /\ "season_avg_p" \in DOMAIN call.pre
    /\ call.pre["season_avg_p"].field = "value"
    /\ cache = <<>>

(***************************************************************************)
(* C17: get_validation_stats reports the number of entries in the cache    *)
(* (n after averages were cached for n distinct identifiers on a fresh     *)
(* validator), the configured duration in hours and the league average     *)
(* 0.244, and changes nothing.                                             *)
(***************************************************************************)
IsGetValidationStats == call.op = "get_validation_stats"

TwoCached ==
    cache_player_average(PyStr("season_avg_p"), Rat(312, 1000),
                         cache_player_average(PyStr("p"), Rat(285, 1000), <<>>, now), now)

C17_StatsReport ==
    IsGetValidationStats =>
        /\ call.ret_stats.cache_size = Cardinality(DOMAIN cache)
        /\ call.ret_stats.cache_duration_hours = Rat(cache_duration, 1)
        /\ call.ret_stats.league_average = Rat(244, 1000)
        /\ cache = call.pre
        /\ now = call.at
        /\ get_validation_stats(TwoCached, now).cache_size = 2
        /\ (\A k \in DOMAIN cache : cache[k].field = "previous_avg") =>
              call.ret_stats.cache_size =
                  Cardinality({id \in PlayerIds : Truthy(id) /\ id.s \in DOMAIN cache})

\* the cache holds an explicit entry and a season-scoped entry
C17_Witness ==
    /\ IsGetValidationStats
    /\ call.ret_stats.cache_size = 2
    /\ \E k \in DOMAIN cache : cache[k].field = "value"
    /\ \E k \in DOMAIN cache : cache[k].field = "previous_avg"

(***************************************************************************)
(* C18: validate_batting_averages of an absent or empty table returns an   *)
(* empty table, does not raise, does not call the provider and leaves the  *)
(* cache as it was, whatever the identifier.                               *)
(***************************************************************************)
C18_EmptyInput ==
    (IsValidate /\ ~NonEmptyInput) =>
        /\ ~call.ret_data.absent
        /\ empty(call.ret_data)
        /\ ~call.raised
        /\ Len(call.replies) = 0
        /\ cache = call.pre

\* no table at all, with an identifier whose entry is live
C18_Witness ==
    /\ IsValidate
    /\ call.data.absent
    /\ call.player_id = PyStr("p")
    /\ "p" \in DOMAIN call.pre
    /\ call.at - call.pre["p"].timestamp < cache_duration
    /\ empty(call.ret_data)

(***************************************************************************)
(* C19: for a table with hits and at_bats and no average-like column the   *)
(* derived average of a row is hits/at_bats when at_bats is not zero, the  *)
(* league average 0.244 when at_bats is zero, and never null; the derived  *)
(* column of the result is non-null and within [0,1] in every row, rows    *)
(* with null hits or hits above at_bats included, and a derived average    *)
(* that is valid is returned as derived.                                   *)
(***************************************************************************)
IsDerivedFromHits ==
    /\ IsValidate /\ NonEmptyInput /\ ~HasAvgColumn
    /\ {"hits", "at_bats"} \subseteq Columns(call.data)

Hits(i) == call.data.data["hits"][i]

AtBats(i) == call.data.data["at_bats"][i]

Derived(i) == Cascaded.data["calculated_avg"][i]

C19_DerivedFromHits ==
    IsDerivedFromHits =>
        /\ ~call.raised
        /\ "calculated_avg" \in Columns(call.ret_data)
        /\ \A i \in Rows :
              /\ ~isnull(Derived(i))
              /\ (~isnull(Hits(i)) /\ ~isnull(AtBats(i)) /\ AtBats(i).n # 0) =>
                    Derived(i) = Rat(Hits(i).n * AtBats(i).d, Hits(i).d * AtBats(i).n)
              /\ (~isnull(AtBats(i)) /\ AtBats(i).n = 0) => Derived(i) = LeagueAverage
              /\ InRange(OutCell("calculated_avg", i))
              /\ ~Invalid(Derived(i)) => OutCell("calculated_avg", i) = Derived(i)
              /\ (~isnull(AtBats(i)) /\ AtBats(i).n = 0) =>
                    OutCell("calculated_avg", i) = LeagueAverage

\* zero at_bats, null hits and hits above at_bats in one table, validated
\* for an identifier whose season average the provider supplies
C19_Witness ==
    /\ IsDerivedFromHits
    /\ call.data.nrows = 3
    /\ \E i, j, k \in Rows :
          /\ AtBats(i) = Rat(0, 1)
          /\ isnull(Hits(j))
          /\ Lt(AtBats(k), Hits(k))
    /\ Truthy(call.player_id)
    /\ Len(call.replies) = 1 /\ ~Failed(call.replies[1])

(***************************************************************************)
(* C20: when tier 2 fetches a season average for the identifier, the       *)
(* average is stored with the time of the call under the season-scoped     *)
(* key of the identifier and written into every value still masked after   *)
(* tier 1 (and, unless it is itself invalid, returned there); when the     *)
(* provider returns nothing, nothing is cached and tier 2 fills nothing,   *)
(* so what tier 1 left masked ends as the league average.  (Stated for     *)
(* the first column the cascade runs on.)                                  *)
(***************************************************************************)
FirstSeries == Cascaded.data[FirstTarget]

AfterTier1 == _apply_previous_game_fallback(FirstSeries, call.player_id, call.pre, call.at)

AfterTier2 ==
    _apply_season_average_fallback(AfterTier1, call.player_id, call.pre, call.at,
                                   call.replies[1]).series

SeasonEntry(v, t) == [field |-> "value", val |-> v, timestamp |-> t]

Tier2Fetches == IsValidate /\ NonEmptyInput /\ Len(call.replies) >= 1

C20_SeasonAverageCached ==
    Tier2Fetches =>
        IF ~Failed(call.replies[1])
        THEN LET season_avg == HitRatio(call.replies[1].events)
             IN /\ SKey \in DOMAIN cache
                /\ cache[SKey] = SeasonEntry(season_avg, call.at)
                /\ \A k \in DOMAIN call.pre \ {SKey} : cache[k] = call.pre[k]
                /\ AfterTier2 = [i \in Rows |->
                                    IF Invalid(AfterTier1[i]) THEN season_avg ELSE AfterTier1[i]]
                /\ ~Invalid(season_avg) =>
                      \A i \in Rows :
                          Invalid(AfterTier1[i]) => OutCell(FirstTarget, i) = season_avg
        ELSE /\ AfterTier2 = AfterTier1
             /\ (\A k \in DOMAIN call.replies : Failed(call.replies[k])) => cache = call.pre
             /\ \A i \in Rows :
                   Invalid(AfterTier1[i]) => OutCell(FirstTarget, i) = LeagueAverage

\* the fetch succeeds over a stale explicit entry and a stale season entry
C20_Witness ==
    /\ Tier2Fetches
    /\ HasPrev /\ ~LivePrev
    /\ SKey \in DOMAIN call.pre
    /\ ~Failed(call.replies[1])
    /\ ~Invalid(HitRatio(call.replies[1].events))
    /\ cache[SKey] # call.pre[SKey]
    /\ \E i \in Rows : Invalid(FirstSeries[i])

(***************************************************************************)
(* C21: nothing but clear_cache removes a cache entry.  In every step      *)
(* other than a clear_cache call each key stays in the cache, with its     *)
(* entry as it was or overwritten at the current time by a                 *)
(* cache_player_average or validate_batting_averages call;                 *)
(* validate_player_data, get_validation_stats and the passage of time      *)
(* leave the cache as it is; and get_validation_stats counts every entry,  *)
(* stale ones included.                                                    *)
(***************************************************************************)
EntryKept(k) ==
    /\ k \in DOMAIN cache'
    /\ \/ cache'[k] = cache[k]
       \/ /\ call'.op \in {"cache_player_average", "validate_batting_averages"}
          /\ cache'[k].timestamp = now

C21_EntriesNeverExpire ==
    [][/\ call'.op # "clear_cache" => \A k \in DOMAIN cache : EntryKept(k)
       /\ call'.op \in {"init", "validate_player_data", "get_validation_stats"} =>
             cache' = cache
       /\ call'.op = "get_validation_stats" =>
             call'.ret_stats.cache_size = Cardinality(DOMAIN cache)]_vars

\* a stale entry is still in the cache, and counted
C21_Witness ==
    /\ call.op = "get_validation_stats"
    /\ \E k \in DOMAIN cache : now - cache[k].timestamp >= cache_duration
    /\ call.ret_stats.cache_size = Cardinality(DOMAIN cache)
    /\ call.ret_stats.cache_size >= 1

(***************************************************************************)
(* C22: tier 2 is attempted only for values still masked after tier 1.     *)
(* When the identifier has a live explicit entry with a valid value, so    *)
(* that tier 1 fills every masked value of every column, the call makes    *)
(* no call to the provider and adds no season-scoped entry to the cache.   *)
(***************************************************************************)
Tier1FillsAll == IsValidate /\ NonEmptyInput /\ LivePrev /\ ~Invalid(PrevEntry.val)

C22_Tier2OnlyWhenMasked ==
    Tier1FillsAll =>
        /\ Len(call.replies) = 0
        /\ DOMAIN cache = DOMAIN call.pre
        /\ cache = call.pre

(***************************************************************************)
(* C24: a table whose average columns hold no invalid value is returned    *)
(* with equal values, without a call to the provider and with the cache    *)
(* unchanged, whatever the identifier and the cache.                       *)
(***************************************************************************)
NothingMasked ==
    /\ IsValidate /\ NonEmptyInput
    /\ \A col \in Targets : \A i \in Rows : ~Invalid(InCell(col, i))

C24_NothingMaskedNoTier ==
    NothingMasked =>
        /\ ~call.raised
        /\ call.ret_data = Cascaded
        /\ HasAvgColumn => call.ret_data = call.data
        /\ Len(call.replies) = 0
        /\ cache = call.pre

\* a valid column validated for an identifier that has a live explicit
\* entry and no season-scoped entry
C24_Witness ==
    /\ NothingMasked /\ HasAvgColumn
    /\ LivePrev
    /\ SKey \notin DOMAIN call.pre
    /\ call.ret_data = call.data

(***************************************************************************)
(* C25: validate_batting_averages without an identifier makes no call to   *)
(* the provider, leaves the cache as it was, and returns what a validator  *)
(* with any other cache returns for the same table.                        *)
(***************************************************************************)
NoIdentifier == IsValidate /\ ~Truthy(call.player_id)

OtherCaches ==
    {<<>>,
     [k \in {"p", "season_avg_p"} |->
        IF k = "p" THEN [field |-> "previous_avg", val |-> Rat(32, 100), timestamp |-> call.at]
        ELSE [field |-> "value", val |-> Rat(1, 2), timestamp |-> call.at]]}

C25_NoIdentifierNoCache ==
    NoIdentifier =>
        /\ Len(call.replies) = 0
        /\ cache = call.pre
        /\ \A c \in OtherCaches :
              LET other == validate_batting_averages(call.data, call.player_id, c, call.at, Padded)
              IN /\ other.data = call.ret_data
                 /\ other.cache = c
                 /\ other.used = 0

\* a masked column validated without an identifier while the cache holds
\* a live explicit entry
C25_Witness ==
    /\ NoIdentifier /\ NonEmptyInput
    /\ call.player_id = PyNone
    /\ \E k \in DOMAIN call.pre :
          call.pre[k].field = "previous_avg" /\ Age(call.pre[k]) < cache_duration
    /\ \E i \in Rows : Invalid(InCell(FirstTarget, i))

(***************************************************************************)
(* C26: while the identifier has a live season-scoped entry, a validation  *)
(* makes no call to the provider and tier 2 writes the cached value; the   *)
(* provider is asked only when the key holds no live entry, no further     *)
(* fetch follows a successful one within a call, and outside clear_cache   *)
(* the timestamp under a key never goes back, so that successful fetches   *)
(* for one identifier lie at least cache_duration apart; once the entry    *)
(* is stale the next lookup asks the provider and, on success, stores the  *)
(* new average with the time of the call.                                  *)
(***************************************************************************)
StaleSeasonEntry ==
    /\ Truthy(call.player_id)
    /\ SKey \in DOMAIN call.pre
    /\ call.pre[SKey].field = "value"
    /\ Age(call.pre[SKey]) >= cache_duration

SeasonEntryServed ==
    (IsValidate /\ NonEmptyInput) =>
        /\ LiveSeasonEntry =>
              /\ Len(call.replies) = 0
              /\ cache = call.pre
              /\ AnyMasked(FirstSeries) =>
                    _apply_season_average_fallback(AfterTier1, call.player_id, call.pre,
                                                   call.at, NoReply).series
                        = [i \in Rows |-> IF Invalid(AfterTier1[i]) THEN call.pre[SKey].val
                                          ELSE AfterTier1[i]]
        /\ Len(call.replies) >= 1 =>
              ~(SKey \in DOMAIN call.pre /\ Age(call.pre[SKey]) < cache_duration)
        /\ \A k \in DOMAIN call.replies : ~Failed(call.replies[k]) => k = Len(call.replies)
        /\ (StaleSeasonEntry /\ AnyMasked(FirstSeries)) =>
              /\ Len(call.replies) >= 1
              /\ ~Failed(call.replies[1]) =>
                    cache[SKey] = SeasonEntry(HitRatio(call.replies[1].events), call.at)

TimestampsAdvance ==
    call'.op # "clear_cache" =>
        \A k \in DOMAIN cache :
            k \in DOMAIN cache' /\ cache'[k].timestamp >= cache[k].timestamp

C26_SeasonEntryServed == [][SeasonEntryServed' /\ TimestampsAdvance]_vars

\* a season entry written earlier is served to a masked column
C26_Witness ==
    /\ IsValidate /\ NonEmptyInput
    /\ LiveSeasonEntry
    /\ call.at > call.pre[SKey].timestamp
    /\ ~LivePrev
    /\ ~Invalid(call.pre[SKey].val)
    /\ \E i \in Rows : Invalid(FirstSeries[i]) /\ OutCell(FirstTarget, i) = call.pre[SKey].val

(***************************************************************************)
(* C27: a stale season-scoped entry is never used as a value.  When the    *)
(* entry of the identifier is stale and every fetch of the call fails or   *)
(* returns no rows, tier 2 changes nothing, what tier 1 left masked        *)
(* becomes the league average, and the cache, the stale entry included,    *)
(* is left as it was.                                                      *)
(***************************************************************************)
StaleAndNoRefetch ==
    /\ IsValidate /\ NonEmptyInput
    /\ StaleSeasonEntry
    /\ Len(call.replies) >= 1
    /\ \A k \in DOMAIN call.replies : Failed(call.replies[k])

C27_StaleSeasonEntryUnused ==
    StaleAndNoRefetch =>
        /\ AfterTier2 = AfterTier1
        /\ \A col \in Targets : \A i \in Rows :
              Invalid(_apply_previous_game_fallback(Cascaded.data[col], call.player_id,
                                                    call.pre, call.at)[i]) =>
                  OutCell(col, i) = LeagueAverage
        /\ cache = call.pre
        /\ cache[SKey] = call.pre[SKey]

\* the stale entry holds a valid value and the provider returns no rows
C27_Witness ==
    /\ StaleAndNoRefetch
    /\ ~Invalid(call.pre[SKey].val)
    /\ call.replies[1].kind = "rows"
    /\ ~LivePrev
    /\ \E i \in Rows : Invalid(FirstSeries[i])

(***************************************************************************)
(* C28: explicit and season-scoped entries do not interfere.  For every    *)
(* identifier, one of the form season_avg_<X> included, a validation       *)
(* leaves every entry stored by cache_player_average as it was, does not   *)
(* raise, and returns average columns that are non-null and within [0,1].  *)
(***************************************************************************)
C28_SharedMapNoInterference ==
    (IsValidate /\ NonEmptyInput) =>
        /\ \A k \in DOMAIN call.pre :
              call.pre[k].field = "previous_avg" =>
                  k \in DOMAIN cache /\ cache[k] = call.pre[k]
        /\ ~call.raised
        /\ \A col \in Targets : \A i \in Rows : InRange(OutCell(col, i))

(***************************************************************************)
(* C29: validation is idempotent.  validate_batting_averages applied to    *)
(* its own output, with the same identifier and any cache, returns that    *)
(* output unchanged with the same columns, leaves the cache alone and      *)
(* asks the provider nothing although the provider would answer;           *)
(* validate_player_data applied to its own output returns the same record, *)
(* and the data_quality of a result is the recomputed one whatever the     *)
(* input supplied.                                                         *)
(***************************************************************************)
WillingProvider ==
    <<[kind |-> "rows", events |-> <<PyStr("home_run")>>],
      [kind |-> "rows", events |-> <<PyStr("home_run")>>]>>

ProbeCaches ==
    {EmptyCache, cache, call.pre}
    \cup {cache_player_average(id, Rat(32, 100), EmptyCache, call.at)
             : id \in {PyStr("p"), PyStr("season_avg_p")}}
    \cup {[k \in {"season_avg_p"} |-> SeasonEntry(Rat(1, 2), call.at)]}

Unchanged(again, c) ==
    /\ ~again.raised
    /\ again.data = call.ret_data
    /\ again.data.cols = call.ret_data.cols
    /\ again.used = 0
    /\ again.cache = c

C29_Idempotent ==
    /\ (IsValidate /\ ~call.raised) =>
          \A c \in ProbeCaches :
              Unchanged(validate_batting_averages(call.ret_data, call.player_id, c,
                                                  call.at, WillingProvider), c)
    /\ IsValidatePlayer =>
          /\ validate_player_data([absent |-> FALSE, d |-> POut]) = POut
          /\ POut["data_quality"] = _assess_data_quality(POut)
          /\ POut["data_quality"] =
                _assess_data_quality([k \in DOMAIN POut \ {"data_quality"} |-> POut[k]])

\* a supplied HIGH is replaced by the recomputed INSUFFICIENT_DATA
C29_Witness ==
    /\ IsValidatePlayer
    /\ ~call.player_data.absent
    /\ "data_quality" \in DOMAIN PIn
    /\ PIn["data_quality"] = PyStr("HIGH")
    /\ POut["data_quality"] = PyStr("INSUFFICIENT_DATA")

\* a table whose column was filled by the cascade, with a cache written by it
C29_TableWitness ==
    /\ IsValidate /\ NonEmptyInput /\ ~call.raised
    /\ cache # call.pre
    /\ \E i \in Rows : Invalid(FirstSeries[i])

(***************************************************************************)
(* C23: derivation follows a fixed precedence.  With an average-like       *)
(* column the result has the columns of the input; otherwise one column    *)
(* calculated_avg is added, and before the cascade its value in each row   *)
(* is hits/at_bats when both columns exist, else, with an events column,   *)
(* the number of hit events among the rows of the row's player_name group  *)
(* (of the whole table without player_name) divided by the number of       *)
(* those rows, else 0.244; the value is never null.                        *)
(***************************************************************************)
GroupOf(i) ==
    IF "player_name" \in Columns(call.data)
    THEN {j \in Rows : call.data.data["player_name"][j] = call.data.data["player_name"][i]}
    ELSE Rows

GroupRatio(i) ==
    Rat(Cardinality({j \in GroupOf(i) :
                        call.data.data["events"][j].s \in
                            {"single", "double", "triple", "home_run"}}),
        Cardinality(GroupOf(i)))

ExpectedDerived(i) ==
    IF {"hits", "at_bats"} \subseteq Columns(call.data)
    THEN Div(call.data.data["hits"][i], call.data.data["at_bats"][i])
    ELSE IF "events" \in Columns(call.data)
    THEN GroupRatio(i)
    ELSE LeagueAverage

C23_DerivationPrecedence ==
    (IsValidate /\ NonEmptyInput) =>
        /\ HasAvgColumn => call.ret_data.cols = call.data.cols
        /\ ~HasAvgColumn =>
              /\ call.ret_data.cols = Append(call.data.cols, "calculated_avg")
              /\ \A i \in Rows :
                    /\ ~isnull(InCell("calculated_avg", i))
                    /\ InCell("calculated_avg", i) = ExpectedDerived(i)

\* the same statement for tables whose rows are labelled 0, 1, ..., n-1
C23_DefaultLabels ==
    call.data.index = RangeIndex(call.data.nrows) => C23_DerivationPrecedence

(***************************************************************************)
(* C30: a validation that ran while another thread called clear_cache or   *)
(* cache_player_average on the same validator has completed without        *)
(* raising, and every value of its average column is non-null and within   *)
(* [0,1].                                                                  *)
(***************************************************************************)
C30_InterleavingSafe ==
    (IsValidate /\ call.pc = "done" /\ NonEmptyInput) =>
        /\ ~call.raised
        /\ call.ret_data.nrows = call.data.nrows
        /\ \A i \in Rows : InRange(OutCell("batting_avg", i))

====
